---- MODULE Spec2Model ----
(***************************************************************************)
(* Model of starfish/imagestack/tileset/_tile_metadata.py                  *)
(* (TileMetadataKey, TileSetMetadata) and of the IntensityTable save/load  *)
(* round trip exercised by test_intensity_table_serialization.py.          *)
(***************************************************************************)
EXTENDS Integers, Sequences, FiniteSets, TLC

VARIABLES
    tileset,      \* the slicedimage TileSet handed to TileSetMetadata.__init__
    heap,         \* payload objects (extras dicts) by reference
    pc,           \* position of TileSetMetadata.__init__: "loop", "done", "raised"
    i,            \* index of the next tile of tileset.tiles() to visit
    tile_extras,  \* the local dict tile_extras of __init__
    self,         \* attributes set on the TileSetMetadata object
    registry,     \* what the caller of TileSetMetadata(tileset) got back
    result,       \* outcome of the last query made on the registry
    keyA,         \* left operand of the key operations
    keyB,         \* right operand of the key operations
    eqResult,     \* outcome of keyA == keyB
    hashA,        \* outcome of hash(keyA)
    hashB,        \* outcome of hash(keyB)
    dataset,      \* the in-memory IntensityTable
    fs,           \* the files on disk, by path
    loaded        \* outcome of the last IntensityTable.load

regVars == <<tileset, heap, pc, i, tile_extras, self, registry, result>>
keyVars == <<keyA, keyB, eqResult, hashA, hashB>>
perVars == <<dataset, fs, loaded>>
vars == <<regVars, keyVars, perVars>>

\* ------------------------------------------------------------------ bounds
MaxTiles == 2
MaxZ == 1
MaxVal == 2
MaxRank == 2
MaxDim == 2
MaxSize == 4

\* ------------------------------------------------------- python outcomes
Returns(v) == [exc |-> "none", val |-> v]
Raises(e) == [exc |-> e]
NotCalled == [exc |-> "not called"]

\* ------------------------------------------------------- TileMetadataKey
KeyCls == "TileMetadataKey"

\* TileMetadataKey(round=r, ch=c, z=z); id is the identity of the new object
NewKey(id, r, c, z) ==
    [cls |-> KeyCls, id |-> id, attrs |-> [_round |-> r, _ch |-> c, _z |-> z]]

IsInstance(obj, cls) == obj.cls = cls

KeyRound(k) == k.attrs._round
KeyCh(k) == k.attrs._ch
KeyZ(k) == k.attrs._z

\* without the isinstance guard: other.round is looked up on any object
KeyEqNoIsinstance(k, other) ==
    IF ~({"_round", "_ch", "_z"} \subseteq DOMAIN other.attrs)
    THEN Raises("AttributeError")
    ELSE Returns(k.attrs._round = other.attrs._round
                 /\ k.attrs._ch = other.attrs._ch
                 /\ k.attrs._z = other.attrs._z)

KeyEq(k, other) ==
    IF ~IsInstance(other, KeyCls)
    THEN Returns(FALSE)
    ELSE Returns(k.attrs._round = KeyRound(other)
                 /\ k.attrs._ch = KeyCh(other)
                 /\ k.attrs._z = KeyZ(other))

\* Python's ^ on unbounded two's-complement integers
RECURSIVE Xor(_, _)
Xor(a, b) ==
    IF a = 0 THEN b
    ELSE IF b = 0 THEN a
    ELSE IF a = -1 THEN -b - 1
    ELSE IF b = -1 THEN -a - 1
    ELSE 2 * Xor(a \div 2, b \div 2) + (((a % 2) + (b % 2)) % 2)

\* a hash that mixes in the object's identity, as object.__hash__ does
KeyHashIdentity(k) == Xor(Xor(Xor(k.attrs._round, k.attrs._ch), k.attrs._z), 8 * k.id)

KeyHash(k) == Xor(Xor(k.attrs._round, k.attrs._ch), k.attrs._z)

\* hash(k): the builtin never returns -1, it turns it into -2
PyHash(k) == IF KeyHash(k) = -1 THEN -2 ELSE KeyHash(k)

\* ------------------------------------------------------------ python dict
\* A dict is the sequence of its entries in insertion order; an entry is
\* found by its stored hash and then by ==, as the hash table does.
MatchesHashOnly(e, k) == e.hash = PyHash(k)

Matches(e, k) == e.hash = PyHash(k) /\ KeyEq(e.key, k).val

Slot(d, k) == {j \in 1..Len(d) : Matches(d[j], k)}

\* a table that trusts the hash alone
DictSetHashOnly(d, k, v) ==
    LET s == {j \in 1..Len(d) : d[j].hash = PyHash(k)} IN
    IF s = {}
    THEN Append(d, [hash |-> PyHash(k), key |-> k, value |-> v])
    ELSE [d EXCEPT ![CHOOSE j \in s : TRUE].value = v]

\* a table that keeps the first value stored under a key
DictSetDefault(d, k, v) ==
    IF Slot(d, k) = {}
    THEN Append(d, [hash |-> PyHash(k), key |-> k, value |-> v])
    ELSE d

\* d[k] = v
DictSet(d, k, v) ==
    IF Slot(d, k) = {}
    THEN Append(d, [hash |-> PyHash(k), key |-> k, value |-> v])
    ELSE [d EXCEPT ![CHOOSE j \in Slot(d, k) : TRUE].value = v]

\* d[k]
DictGet(d, k) ==
    IF Slot(d, k) = {}
    THEN Raises("KeyError")
    ELSE Returns(d[CHOOSE j \in Slot(d, k) : TRUE].value)

\* d.keys()
DictKeys(d) == [j \in 1..Len(d) |-> d[j].key]

\* ------------------------------------------------------------- the TileSet
Dims == {"ROUND", "CH", "Z"}

\* the values an index takes: two rounds, two channels, z-planes 0..MaxZ
IndexValues(dim) == IF dim = "Z" THEN 0..MaxZ ELSE 0..1

IndexMappings ==
    UNION {{f \in [S -> 0..MaxZ] : \A dim \in S : f[dim] \in IndexValues(dim)} :
              S \in SUBSET Dims}

\* a subscript that falls back to 0 instead of raising
IndicesGetItemOrZero(indices, dim) ==
    IF dim \in DOMAIN indices THEN Returns(indices[dim]) ELSE Returns(0)

\* tile.indices[dim]
IndicesGetItem(indices, dim) ==
    IF dim \in DOMAIN indices THEN Returns(indices[dim]) ELSE Raises("KeyError")

\* a get whose fallback is off by one
IndicesGetWrongDefault(indices, dim, default) ==
    IF dim \in DOMAIN indices THEN indices[dim] ELSE default + 1

\* tile.indices.get(dim, default)

IndicesGet(indices, dim, default) ==
    IF dim \in DOMAIN indices THEN indices[dim] ELSE default

\* the content a payload object had when the TileSet was handed over
PayloadContent(ref) == <<"extras", ref>>

\* the TileSet whose tiles carry the given index mappings; the payload of
\* tile j is object j, the payload of the TileSet is object 0
TileSetOf(f) ==
    [tiles |-> [j \in 1..Len(f) |-> [indices |-> f[j], extras |-> j]], extras |-> 0]

NoAttrs == <<>>

Paths == {"test.nc", "other.nc"}

Absent == [exists |-> FALSE]

\* no dataset, nothing on disk, nothing loaded
PerIdle ==
    /\ dataset = "none"
    /\ fs = [p \in Paths |-> Absent]
    /\ loaded = [path |-> "none", out |-> NotCalled]

KeyIdle ==
    /\ keyA = NewKey(1, 0, 0, 0)
    /\ keyB = NewKey(2, 0, 0, 0)
    /\ eqResult = NotCalled
    /\ hashA = NotCalled
    /\ hashB = NotCalled

Init ==
    /\ \E n \in 0..MaxTiles : \E f \in [1..n -> IndexMappings] : tileset = TileSetOf(f)
    /\ heap = [ref \in 0..Len(tileset.tiles) |-> PayloadContent(ref)]
    /\ pc = "loop"
    /\ i = 1
    /\ tile_extras = <<>>
    /\ self = NoAttrs
    /\ registry = "none"
    /\ result = [op |-> "none", out |-> NotCalled]
    /\ KeyIdle
    /\ PerIdle

\* ------------------------------------------------ TileSetMetadata.__init__
\* one iteration of "for tile in tileset.tiles()"
LoopStep ==
    /\ pc = "loop"
    /\ i <= Len(tileset.tiles)
    /\ LET tile == tileset.tiles[i]
           round_ == IndicesGetItem(tile.indices, "ROUND")
           ch == IndicesGetItem(tile.indices, "CH")
           z == IndicesGet(tile.indices, "Z", 0)
       IN IF round_.exc # "none" \/ ch.exc # "none"
          THEN /\ pc' = "raised"
               /\ tile_extras' = <<>>
               /\ i' = i
          ELSE /\ tile_extras' = DictSet(tile_extras,
                                         NewKey(i, round_.val, ch.val, z),
                                         tile.extras)
               /\ i' = i + 1
               /\ pc' = pc
    /\ UNCHANGED <<tileset, heap, self, registry, result, keyVars, perVars>>

\* a constructor that stores a copy of tileset.extras
FinishInitCopy ==
    /\ pc = "loop"
    /\ i > Len(tileset.tiles)
    /\ LET new == Len(tileset.tiles) + 1 IN
        /\ heap' = [ref \in 0..new |->
                       IF ref = new THEN heap[tileset.extras] ELSE heap[ref]]
        /\ self' = [tile_extras |-> tile_extras, _extras |-> new]
    /\ registry' = "self"
    /\ pc' = "done"
    /\ UNCHANGED <<tileset, i, tile_extras, result, keyVars, perVars>>

\* the two assignments after the loop, and the return to the caller
FinishInit ==
    /\ pc = "loop"
    /\ i > Len(tileset.tiles)
    /\ self' = [tile_extras |-> tile_extras, _extras |-> tileset.extras]
    /\ registry' = "self"
    /\ pc' = "done"
    /\ UNCHANGED <<tileset, heap, i, tile_extras, result, keyVars, perVars>>

\* ------------------------------------------------------------ the queries
QueryKeys ==
    {NewKey(0, r, c, z) : r \in IndexValues("ROUND"), c \in IndexValues("CH"),
                          z \in IndexValues("Z")}

\* a lookup that removes what it returns (dict.pop)
GetItemPop(tilekey) ==
    /\ pc = "done"
    /\ registry = "self"
    /\ result' = [op |-> "getitem", arg |-> tilekey,
                  out |-> DictGet(self.tile_extras, tilekey)]
    /\ self' = [self EXCEPT !.tile_extras =
                   SelectSeq(self.tile_extras, LAMBDA e : ~Matches(e, tilekey))]
    /\ UNCHANGED <<tileset, heap, pc, i, tile_extras, registry, keyVars, perVars>>

\* TileSetMetadata.__getitem__
GetItem(tilekey) ==
    /\ pc = "done"
    /\ registry = "self"
    /\ result' = [op |-> "getitem", arg |-> tilekey,
                  out |-> DictGet(self.tile_extras, tilekey)]
    /\ UNCHANGED <<tileset, heap, pc, i, tile_extras, self, registry, keyVars, perVars>>

\* TileSetMetadata.keys
Keys ==
    /\ pc = "done"
    /\ registry = "self"
    /\ result' = [op |-> "keys", arg |-> "none",
                  out |-> Returns(DictKeys(self.tile_extras))]
    /\ UNCHANGED <<tileset, heap, pc, i, tile_extras, self, registry, keyVars, perVars>>

\* TileSetMetadata.extras
Extras ==
    /\ pc = "done"
    /\ registry = "self"
    /\ result' = [op |-> "extras", arg |-> "none", out |-> Returns(self._extras)]
    /\ UNCHANGED <<tileset, heap, pc, i, tile_extras, self, registry, keyVars, perVars>>

Next ==
    \/ LoopStep
    \/ FinishInit
    \/ \E tilekey \in QueryKeys : GetItem(tilekey)
    \/ Keys
    \/ Extras

Spec == Init /\ [][Next]_vars

\* --------------------------------------- TileMetadataKey on its own
KeyValues == (-MaxVal)..MaxVal

KeyObjects(id) == {NewKey(id, r, c, z) : r \in KeyValues, c \in KeyValues, z \in KeyValues}

\* objects that are not TileMetadataKeys: None, and look-alikes that carry
\* the same three attributes
NonKeyObjects(id) ==
    {[cls |-> "NoneType", id |-> id, attrs |-> [__none__ |-> 0]]}
    \cup {[cls |-> "LookAlike", id |-> id, attrs |-> k.attrs] : k \in KeyObjects(id)}

RegIdle ==
    /\ tileset = [tiles |-> <<>>, extras |-> 0]
    /\ heap = [ref \in 0..0 |-> PayloadContent(ref)]
    /\ pc = "idle"
    /\ i = 1
    /\ tile_extras = <<>>
    /\ self = NoAttrs
    /\ registry = "none"
    /\ result = [op |-> "none", out |-> NotCalled]

InitKey ==
    /\ keyA \in KeyObjects(1)
    /\ keyB \in KeyObjects(2) \cup NonKeyObjects(2)
    /\ eqResult = NotCalled
    /\ hashA = NotCalled
    /\ hashB = NotCalled
    /\ RegIdle
    /\ PerIdle

\* keyA == keyB
Eq ==
    /\ eqResult' = KeyEq(keyA, keyB)
    /\ UNCHANGED <<keyA, keyB, hashA, hashB, regVars, perVars>>

\* hash(keyA)
HashOfA ==
    /\ hashA' = Returns(PyHash(keyA))
    /\ UNCHANGED <<keyA, keyB, eqResult, hashB, regVars, perVars>>

\* hash(keyB), keyB a TileMetadataKey
HashOfB ==
    /\ IsInstance(keyB, KeyCls)
    /\ hashB' = Returns(PyHash(keyB))
    /\ UNCHANGED <<keyA, keyB, eqResult, hashA, regVars, perVars>>

NextKey == Eq \/ HashOfA \/ HashOfB

SpecKey == InitKey /\ [][NextKey]_vars

\* ------------------------------------------- IntensityTable save and load
TestShape == <<1, 5, 2, 2, 5>>

RECURSIVE Size(_)
Size(shape) ==
    IF shape = <<>> THEN 1 ELSE shape[Len(shape)] * Size(SubSeq(shape, 1, Len(shape) - 1))

\* the index tuples of an array of the given shape, 0-based
RECURSIVE Indices(_)
Indices(shape) ==
    IF shape = <<>> THEN {<<>>}
    ELSE {Append(p, x) : p \in Indices(SubSeq(shape, 1, Len(shape) - 1)),
                         x \in 0..(shape[Len(shape)] - 1)}

\* position of an index tuple in the row-major payload, 0-based
RECURSIVE Ravel(_, _)
Ravel(idx, shape) ==
    IF shape = <<>> THEN 0
    ELSE Ravel(SubSeq(idx, 1, Len(idx) - 1), SubSeq(shape, 1, Len(shape) - 1))
             * shape[Len(shape)] + idx[Len(idx)]

\* the index tuple at a position of the row-major payload
RECURSIVE Unravel(_, _)
Unravel(n, shape) ==
    IF shape = <<>> THEN <<>>
    ELSE Append(Unravel(n \div shape[Len(shape)], SubSeq(shape, 1, Len(shape) - 1)),
                n % shape[Len(shape)])

\* np.zeros(100, dtype=np.float32).reshape(1, 5, 2, 2, 5), as a dataset
ZeroDataset(shape) ==
    [shape |-> shape, dtype |-> "float32",
     data |-> [idx \in Indices(shape) |-> 0],
     coords |-> [k \in 1..Len(shape) |-> [n \in 1..shape[k] |-> n - 1]],
     attrs |-> <<>>]

SmallShapes ==
    {sh \in UNION {[1..r -> 0..MaxDim] : r \in 1..MaxRank} : Size(sh) <= MaxSize}

SmallDatasets ==
    UNION {{[shape |-> sh, dtype |-> dt,
             data |-> d,
             coords |-> [k \in 1..Len(sh) |-> [n \in 1..sh[k] |-> 10 * k + n]],
             attrs |-> at] :
               d \in [Indices(sh) -> 0..1],
               dt \in {"float32", "float64"},
               at \in {<<>>, <<"note">>}} : sh \in SmallShapes}

Datasets == {ZeroDataset(TestShape)} \cup SmallDatasets

\* the container written for a dataset: header, row-major payload, labels
ToFile(ds) ==
    [exists |-> TRUE,
     shape |-> ds.shape,
     dtype |-> ds.dtype,
     payload |-> [n \in 1..Size(ds.shape) |-> ds.data[Unravel(n - 1, ds.shape)]],
     coords |-> ds.coords,
     attrs |-> ds.attrs]

\* a reader that takes the payload in column-major order
FromFileTransposed(f) ==
    [shape |-> f.shape,
     dtype |-> f.dtype,
     data |-> [idx \in Indices(f.shape) |->
                  f.payload[Ravel([k \in 1..Len(idx) |-> idx[Len(idx) + 1 - k]],
                                  [k \in 1..Len(idx) |-> f.shape[Len(idx) + 1 - k]]) + 1]],
     coords |-> f.coords,
     attrs |-> f.attrs]

\* the dataset rebuilt from a container
FromFile(f) ==
    [shape |-> f.shape,
     dtype |-> f.dtype,
     data |-> [idx \in Indices(f.shape) |-> f.payload[Ravel(idx, f.shape) + 1]],
     coords |-> f.coords,
     attrs |-> f.attrs]

\* IntensityTable.equals
Equals(a, b) ==
    /\ a.shape = b.shape
    /\ a.dtype = b.dtype
    /\ \A idx \in Indices(a.shape) : a.data[idx] = b.data[idx]
    /\ a.coords = b.coords
    /\ a.attrs = b.attrs

InitPer ==
    /\ dataset \in Datasets
    /\ fs = [p \in Paths |-> Absent]
    /\ loaded = [path |-> "none", out |-> NotCalled]
    /\ RegIdle
    /\ KeyIdle

\* intensities.save(filename)
Save(path) ==
    /\ fs' = [fs EXCEPT ![path] = ToFile(dataset)]
    /\ UNCHANGED <<dataset, loaded, regVars, keyVars>>

\* intensities.load(filename)
Load(path) ==
    /\ loaded' = [path |-> path,
                  out |-> IF fs[path].exists
                          THEN Returns(FromFile(fs[path]))
                          ELSE Raises("FileNotFoundError")]
    /\ UNCHANGED <<dataset, fs, regVars, keyVars>>

NextPer ==
    \/ \E path \in Paths : Save(path)
    \/ \E path \in Paths : Load(path)

SpecPer == InitPer /\ [][NextPer]_vars

\* ======================================================== properties
Tiles == tileset.tiles

HasRequired(t) == {"ROUND", "CH"} \subseteq DOMAIN t.indices

\* the (round, channel, z) triple the specification assigns to a tile
Triple(t) ==
    <<t.indices["ROUND"], t.indices["CH"],
      IF "Z" \in DOMAIN t.indices THEN t.indices["Z"] ELSE 0>>

KeyTriple(k) == <<KeyRound(k), KeyCh(k), KeyZ(k)>>

KeyOf(tr) == NewKey(0, tr[1], tr[2], tr[3])

SameTriple(j) == {j2 \in 1..Len(Tiles) : Triple(Tiles[j2]) = Triple(Tiles[j])}

LastOf(S) == CHOOSE j \in S : \A j2 \in S : j2 <= j

BadTiles == {j \in 1..Len(Tiles) : ~HasRequired(Tiles[j])}

FirstOf(S) == CHOOSE j \in S : \A j2 \in S : j <= j2

\* C1: two independently constructed keys with the same (round, ch, z) are
\* equal and have equal hashes; whenever keyA == keyB is true, hash(keyA)
\* equals hash(keyB).
KeyEqualityHashLaw ==
    (eqResult.exc = "none" /\ hashA.exc = "none" /\ hashB.exc = "none") =>
        /\ (IsInstance(keyB, KeyCls) /\ keyA.attrs = keyB.attrs)
               => (eqResult.val /\ hashA.val = hashB.val)
        /\ eqResult.val => hashA.val = hashB.val

KeyEqualityHashWitness ==
    /\ eqResult.exc = "none" /\ hashA.exc = "none" /\ hashB.exc = "none"
    /\ keyA.id # keyB.id
    /\ KeyTriple(keyA) = <<-1, 2, 2>>
    /\ eqResult.val
    /\ hashA.val = -2

\* C2: keyA == other is true exactly when other is a TileMetadataKey whose
\* round, ch and z all match; for any other object the comparison returns
\* false and raises nothing.
KeyEqIffFieldsMatch ==
    eqResult.exc # "not called" =>
        /\ eqResult.exc = "none"
        /\ eqResult.val <=>
               /\ keyB.cls = KeyCls
               /\ keyA.attrs._round = keyB.attrs._round
               /\ keyA.attrs._ch = keyB.attrs._ch
               /\ keyA.attrs._z = keyB.attrs._z

KeyEqCollisionWitness ==
    /\ eqResult.exc = "none" /\ ~eqResult.val
    /\ keyB.cls = KeyCls
    /\ KeyTriple(keyA) = <<1, 2, 0>>
    /\ KeyTriple(keyB) = <<2, 1, 0>>
    /\ hashA.exc = "none" /\ hashB.exc = "none"
    /\ hashA.val = hashB.val

\* C3: a registry built from N tiles with pairwise distinct triples has
\* exactly N entries, keys() returns exactly those N keys, and the lookup of
\* each tile's key returns that tile's own payload.
RegistryCompleteness ==
    (/\ pc = "done"
     /\ \A j \in 1..Len(Tiles) : SameTriple(j) = {j}) =>
        /\ Len(self.tile_extras) = Len(Tiles)
        /\ \A j \in 1..Len(Tiles) :
               DictGet(self.tile_extras, KeyOf(Triple(Tiles[j]))) = Returns(Tiles[j].extras)
        /\ result.op = "keys" =>
               /\ Len(result.out.val) = Len(Tiles)
               /\ {KeyTriple(result.out.val[j]) : j \in 1..Len(result.out.val)}
                      = {Triple(Tiles[j]) : j \in 1..Len(Tiles)}

RegistryCompletenessWitness ==
    /\ pc = "done"
    /\ Len(Tiles) = 2
    /\ Triple(Tiles[1]) # Triple(Tiles[2])
    /\ PyHash(KeyOf(Triple(Tiles[1]))) = PyHash(KeyOf(Triple(Tiles[2])))
    /\ result.op = "keys"
    /\ Len(result.out.val) = 2

\* C4: the lookup of a key whose exact triple no tile produced fails with
\* KeyError; the lookup of a key some tile produced returns the payload of a
\* tile with exactly that triple.
LookupFailure ==
    result.op = "getitem" =>
        LET owners == {j \in 1..Len(Tiles) : Triple(Tiles[j]) = KeyTriple(result.arg)}
        IN IF owners = {}
           THEN result.out.exc = "KeyError"
           ELSE /\ result.out.exc = "none"
                /\ result.out.val \in {Tiles[j].extras : j \in owners}

LookupFailureWitness ==
    /\ result.op = "getitem"
    /\ result.out.exc = "KeyError"
    /\ \E j \in 1..Len(Tiles) :
           /\ Triple(Tiles[j])[1] = KeyRound(result.arg)
           /\ Triple(Tiles[j])[2] = KeyCh(result.arg)
           /\ Triple(Tiles[j])[3] # KeyZ(result.arg)

\* C5: a tile without a z entry is registered under (round, channel, 0); a
\* tile with a z entry is registered under that z, and not under 0 unless
\* its z is 0.
RegistryDefaultZ ==
    pc = "done" =>
        \A j \in 1..Len(Tiles) :
            LET t == Tiles[j]
                r == t.indices["ROUND"]
                c == t.indices["CH"]
                last == j = LastOf(SameTriple(j))
            IN IF "Z" \notin DOMAIN t.indices
               THEN last => DictGet(self.tile_extras, NewKey(0, r, c, 0)) = Returns(t.extras)
               ELSE /\ last => DictGet(self.tile_extras, NewKey(0, r, c, t.indices["Z"]))
                                   = Returns(t.extras)
                    /\ t.indices["Z"] # 0 =>
                           DictGet(self.tile_extras, NewKey(0, r, c, 0)) # Returns(t.extras)

RegistryDefaultZWitness ==
    /\ pc = "done"
    /\ Len(Tiles) = 2
    /\ "Z" \notin DOMAIN Tiles[1].indices
    /\ "Z" \in DOMAIN Tiles[2].indices
    /\ Tiles[2].indices["Z"] = 1
    /\ Tiles[1].indices["ROUND"] = Tiles[2].indices["ROUND"]
    /\ Tiles[1].indices["CH"] = Tiles[2].indices["CH"]
    /\ Len(self.tile_extras) = 2

\* C6: when some tile lacks round or channel, construction never completes:
\* it runs at most up to the first such tile and raises there, and neither
\* the tile map nor the collection metadata is ever set on an object the
\* caller holds; construction raises in no other case.
MissingFieldFailFast ==
    /\ BadTiles # {} =>
           /\ pc \in {"loop", "raised"}
           /\ pc = "loop" => i <= FirstOf(BadTiles)
           /\ pc = "raised" => i = FirstOf(BadTiles)
           /\ registry = "none"
           /\ self = NoAttrs
           /\ result.op = "none"
    /\ pc = "raised" => BadTiles # {}

MissingFieldWitness ==
    /\ pc = "raised"
    /\ Len(Tiles) = 2
    /\ HasRequired(Tiles[1])
    /\ "CH" \notin DOMAIN Tiles[2].indices
    /\ "ROUND" \in DOMAIN Tiles[2].indices
    /\ registry = "none"

\* C7: when several tiles produce the same key, construction raises nothing,
\* the registry holds one entry for that key, and its lookup returns the
\* payload of the last of those tiles.
DuplicateLastWriteWins ==
    /\ BadTiles = {} => pc # "raised"
    /\ pc = "done" =>
           \A j \in 1..Len(Tiles) :
               /\ Cardinality({n \in 1..Len(self.tile_extras) :
                      KeyTriple(self.tile_extras[n].key) = Triple(Tiles[j])}) = 1
               /\ DictGet(self.tile_extras, KeyOf(Triple(Tiles[j])))
                      = Returns(Tiles[LastOf(SameTriple(j))].extras)

DuplicateWitness ==
    /\ pc = "done"
    /\ Len(Tiles) = 2
    /\ "Z" \in DOMAIN Tiles[1].indices
    /\ Tiles[1].indices["Z"] = 0
    /\ "Z" \notin DOMAIN Tiles[2].indices
    /\ Triple(Tiles[1]) = Triple(Tiles[2])
    /\ Len(self.tile_extras) = 1

\* C8: extras returns the very payload object the TileSet exposed, with the
\* content it had at construction, and no other payload object was created.
ExtrasPassthrough ==
    result.op = "extras" =>
        /\ result.out = Returns(tileset.extras)
        /\ heap[tileset.extras] = PayloadContent(tileset.extras)
        /\ DOMAIN heap = 0..Len(Tiles)

ExtrasPassthroughWitness ==
    /\ result.op = "extras"
    /\ result.out.exc = "none"
    /\ Len(Tiles) = 2
    /\ Len(self.tile_extras) = 2

\* C9: a dataset saved to a path and loaded back from it equals the dataset
\* (shape, dtype, every value, labels, attributes), and saving or loading
\* leaves the in-memory dataset as it was.
RoundTripStep ==
    /\ dataset' = dataset
    /\ loaded'.out.exc = "none" => Equals(loaded'.out.val, dataset')

ReadOnlyStep ==
    /\ pc = "done" => (self' = self /\ heap' = heap /\ tileset' = tileset)
    /\ (result.op = result'.op /\ result.op # "none" /\ result.arg = result'.arg)
           => result'.out = result.out
    /\ \A j \in 1..Len(tile_extras) :
           j <= Len(tile_extras') => tile_extras'[j].key = tile_extras[j].key

ReadOnlyAfterConstruction == [][ReadOnlyStep]_vars

ReadOnlyWitness ==
    /\ result.op = "getitem"
    /\ result.out.exc = "none"
    /\ Len(self.tile_extras) = 2
====
